---------------------------- MODULE Spec2Model ----------------------------
(***************************************************************************)
(* A model of src/api/app.py: the /download handler download_video, the    *)
(* three download methods download_v2, download_v3, download_v1 it tries   *)
(* in that order, and extract_video_id, which every method calls first.    *)
(*                                                                         *)
(* A URL is a sequence of one-character strings, and the three regular     *)
(* expressions of extract_video_id are computed on it as re.search does:   *)
(* leftmost match, greedy quantifiers.                                     *)
(*                                                                         *)
(* app.py calls logger.debug, logger.warning and logger.error throughout   *)
(* and binds the name logger nowhere: it imports no logging module and     *)
(* assigns no logger.  Python resolves the name when the call executes,    *)
(* in the module's global namespace: with the name unbound the call raises *)
(* NameError.  loggerBound records whether the namespace the module runs   *)
(* in binds the name; FALSE is the module as the file alone defines it.    *)
(***************************************************************************)
EXTENDS Integers, Sequences, FiniteSets, TLC

VARIABLES
    loggerBound,  \* whether the global name logger resolves
    pc,           \* position of the request in download_video / download_vN
    url,          \* the url parameter of download_video
    i,            \* position of the for loop in methods (line 62)
    last_error,   \* download_video's last_error (lines 60, 68)
    raised,       \* the exception travelling out of the method called at line 65
    frame,        \* locals of the running download_vN
    session,      \* state of the requests.Session of the running download_vN
    calls,        \* per method, how many times line 65 has called it
    extracted,    \* what each call of extract_video_id returned or raised, in order
    net,          \* every HTTP request issued, in order
    logged,       \* the warning and error records written through logger, in order
    returned,     \* per method, the response it returned (None if it has not)
    outcome,      \* what the caller of download_video gets
    attempts,     \* per call of a method that ended: where it ended, on what
                  \* answer of its backend, and the exception that left it
    headers,      \* the module's headers dict (lines 41-49)
    loop,         \* the request whose handler the event loop is running (0: none)
    arrived,      \* the requests that reached the server and wait for the loop
    served        \* the requests whose handler has ended

vars == <<loggerBound, pc, url, i, last_error, raised, frame, session, calls,
          extracted, net, logged, returned, outcome, attempts, headers, loop,
          arrived, served>>

loopVars == <<loop, arrived, served>>

None == [kind |-> "None"]

-----------------------------------------------------------------------------
(* Characters and the regular expressions of extract_video_id               *)

Digit == {"0", "1", "2", "3", "4", "5", "6", "7", "8", "9"}

Lower == {"a", "b", "c", "d", "e", "f", "g", "h", "i", "j", "k", "l", "m",
          "n", "o", "p", "q", "r", "s", "t", "u", "v", "w", "x", "y", "z"}

Upper == {"A", "B", "C", "D", "E", "F", "G", "H", "I", "J", "K", "L", "M",
          "N", "O", "P", "Q", "R", "S", "T", "U", "V", "W", "X", "Y", "Z"}

\* the class [A-Za-z0-9_.] of username_pattern (line 96)
HandleChar == Lower \cup Upper \cup Digit \cup {"_", "."}

\* \d{15,} of the alternative pattern (line 107)
MinIdLen == 15

NoMatch == [found |-> FALSE]

\* s has lit at position p
MatchAt(s, p, lit) ==
    /\ p >= 1
    /\ p + Len(lit) - 1 <= Len(s)
    /\ SubSeq(s, p, p + Len(lit) - 1) = lit

\* Python's `lit in s`
Contains(s, lit) == \E p \in 1..Len(s) : MatchAt(s, p, lit)

\* last position of the longest run of Class characters that starts at p
\* (p - 1 when s[p] is not in Class): a greedy Class* from p
RunEnd(s, p, Class) ==
    CHOOSE q \in (p - 1)..Len(s) :
        /\ \A k \in p..q : s[k] \in Class
        /\ q = Len(s) \/ s[q + 1] \notin Class

Least(S) == CHOOSE x \in S : \A y \in S : x <= y

VideoWord == <<"v", "i", "d", "e", "o">>
PhotoWord == <<"p", "h", "o", "t", "o">>

\* SearchUsername taking group(1), the handle without its "@"
SearchUsernameGroup1(s) ==
    LET starts == {p \in 1..Len(s) :
                      s[p] = "@" /\ p < Len(s) /\ s[p + 1] \in HandleChar}
    IN  IF starts = {} THEN NoMatch
        ELSE LET p == Least(starts)
             IN  [found |-> TRUE,
                  group0 |-> SubSeq(s, p + 1, RunEnd(s, p + 1, HandleChar))]

\* re.search(r"@([A-Za-z0-9_.]+)", s): group(0) is the match, "@" included
SearchUsername(s) ==
    LET starts == {p \in 1..Len(s) :
                      s[p] = "@" /\ p < Len(s) /\ s[p + 1] \in HandleChar}
    IN  IF starts = {} THEN NoMatch
        ELSE LET p == Least(starts)
             IN  [found |-> TRUE,
                  group0 |-> SubSeq(s, p, RunEnd(s, p + 1, HandleChar))]

\* re.search(r"/(video|photo)/(\d+)", s)
ContentTypeAt(s, p, word) ==
    /\ MatchAt(s, p, <<"/">> \o word \o <<"/">>)
    /\ p + 7 <= Len(s)
    /\ s[p + 7] \in Digit

SearchContentType(s) ==
    LET starts == {p \in 1..Len(s) :
                      ContentTypeAt(s, p, VideoWord) \/ ContentTypeAt(s, p, PhotoWord)}
    IN  IF starts = {} THEN NoMatch
        ELSE LET p == Least(starts)
             IN  [found |-> TRUE,
                  group1 |-> IF ContentTypeAt(s, p, VideoWord) THEN "video" ELSE "photo",
                  group2 |-> SubSeq(s, p + 7, RunEnd(s, p + 7, Digit))]

\* re.search(r"[/=](\d{15,})", s)
SearchAlt(s) ==
    LET starts == {p \in 1..Len(s) :
                      s[p] \in {"/", "="} /\ RunEnd(s, p + 1, Digit) - p >= MinIdLen}
    IN  IF starts = {} THEN NoMatch
        ELSE LET p == Least(starts)
             IN  [found |-> TRUE,
                  group1 |-> SubSeq(s, p + 1, RunEnd(s, p + 1, Digit))]

-----------------------------------------------------------------------------
(* The URLs a request may carry and a short link may resolve to            *)

\* longest content id tried
MaxIdLen == 19

DigitChars == <<"0", "1", "2", "3", "4", "5", "6", "7", "8", "9">>

\* the first n digits of 7123456789012345678901...
IdDigits(n) ==
    [k \in 1..n |-> IF k = 1 THEN "7" ELSE DigitChars[((k - 1) % 10) + 1]]

IdLens == {1, MinIdLen - 1, MinIdLen, MaxIdLen}

Scheme == <<"h", "t", "t", "p", "s", ":", "/", "/">>
TikTok == <<"t", "i", "k", "t", "o", "k", ".", "c", "o", "m">>
WwwHost == <<"w", "w", "w", ".">> \o TikTok
VmHost == <<"v", "m", ".">> \o TikTok
VtHost == <<"v", "t", ".">> \o TikTok

Handles == { <<"@", "s", "o", "m", "e", "u", "s", "e", "r">>,
             <<"@", "a", ".", "B", "_", "1">> }

Placeholder == <<"@", "u", "s", "e", "r">>

Slash(word) == <<"/">> \o word \o <<"/">>

Query == <<"?", "l", "a", "n", "g", "=", "e", "n">>

\* .../@handle/video/<15 or more digits> and .../@handle/photo/<15 or more
\* digits>, with or without a query string
StandardUrl(word, h, n, q) ==
    Scheme \o WwwHost \o <<"/">> \o h \o Slash(word) \o IdDigits(n) \o q

StandardUrls(word) ==
    {StandardUrl(word, h, n, q) :
        h \in Handles, n \in {MinIdLen, MaxIdLen}, q \in {<<>>, Query}}

\* URLs that miss the handle, the /video/ or /photo/ segment, or both
OtherUrls ==
    UNION {
        { Scheme \o WwwHost \o Slash(VideoWord) \o IdDigits(n),
          Scheme \o WwwHost \o Slash(PhotoWord) \o IdDigits(n),
          Scheme \o WwwHost \o Slash(<<"v">>) \o IdDigits(n) \o <<".", "h", "t", "m", "l">>,
          Scheme \o WwwHost \o <<"/">> \o <<"@", "s", "o", "m", "e", "u", "s", "e", "r">>
              \o <<"?", "i", "d", "=">> \o IdDigits(n),
          Scheme \o WwwHost \o <<"/", "s", "h", "a", "r", "e", "/", "i", "d", "_">>
              \o IdDigits(n),
          Scheme \o WwwHost \o <<"/", "s", "h", "a", "r", "e", "/", "i", "d", "_">>
              \o IdDigits(n) \o <<"/", "@", "s", "o", "m", "e", "u", "s", "e", "r">>
        } : n \in IdLens }
    \cup { Scheme \o WwwHost \o <<"/">> \o h : h \in Handles }
    \cup { Scheme \o WwwHost \o <<"/">> }

LongUrls == StandardUrls(VideoWord) \cup StandardUrls(PhotoWord) \cup OtherUrls

ShortCode == <<"/", "Z", "M", "a", "b", "c", "1", "2", "3", "/">>

ShortUrls == { Scheme \o VmHost \o ShortCode, Scheme \o VtHost \o ShortCode }

Urls == LongUrls \cup ShortUrls

-----------------------------------------------------------------------------
(* Exceptions and log records                                              *)

\* HTTPException(status_code=..., detail=...): the detail message is kept as
\* its fixed text, the backend it names ("" if none) and the status it quotes
\* (0 if none)
HTTPException(status, text, site, quoted) ==
    [kind |-> "HTTPException", status_code |-> status,
     detail |-> [text |-> text, site |-> site, status |-> quoted]]

\* what evaluating the unbound name logger raises
NameError == [kind |-> "NameError", name |-> "logger"]

\* an exception of the requests library (connection refused, timeout, ...)
RequestException == [kind |-> "RequestException"]

\* a record written by the logger call at a line of app.py
Log(level, line) == [level |-> level, line |-> line]

-----------------------------------------------------------------------------
(* extract_video_id                                                        *)

RedirectGet == [request |-> "GET", to |-> "short link", by |-> "extract_video_id"]

Raise(u, e, gets, logs) ==
    [kind |-> "raise", url |-> u, exc |-> e, gets |-> gets, logs |-> logs]

\* u is the value of extract_video_id's url when it returns or raises
Return(u, username, video_id, content_type, gets, logs) ==
    [kind |-> "return", url |-> u, username |-> username, video_id |-> video_id,
     content_type |-> content_type, gets |-> gets, logs |-> logs]

\* IsShortLink knowing only vm.tiktok.com
IsShortLinkVm(u) == Contains(u, VmHost)

\* line 85
IsShortLink(u) == Contains(u, VmHost) \/ Contains(u, VtHost)

\* lines 95-136, on the URL left by lines 85-93
ExtractFrom(u, gets) ==
    LET username_match == SearchUsername(u)
        content_type_match == SearchContentType(u)
        alt_video_id_match == SearchAlt(u)
    IN  IF ~username_match.found \/ ~content_type_match.found
        THEN IF ~loggerBound THEN Raise(u, NameError, gets, <<>>)          \* line 104
             ELSE IF alt_video_id_match.found
             THEN IF username_match.found
                  THEN Return(u, username_match.group0, alt_video_id_match.group1,
                              "video", gets, <<Log("warning", 104)>>)
                  ELSE Return(u, Placeholder, alt_video_id_match.group1,
                              "video", gets, <<Log("warning", 104), Log("warning", 117)>>)
             ELSE IF ~username_match.found
             THEN Raise(u, HTTPException(400, "Could not extract username from URL", "", 0),
                        gets, <<Log("warning", 104), Log("error", 122)>>)
             ELSE Raise(u, HTTPException(400, "Could not extract video ID from URL", "", 0),
                        gets, <<Log("warning", 104), Log("error", 129)>>)
        ELSE Return(u, username_match.group0, content_type_match.group2,
                    content_type_match.group1, gets, <<>>)

\* extract_video_id(url); redirect is what requests.get does at line 88 when
\* the URL is a short link
extract_video_id(u, redirect) ==
    IF IsShortLink(u)
    THEN IF redirect.kind = "exception"
         THEN IF loggerBound
              THEN Raise(u, HTTPException(400, "Failed to follow redirect", "", 0),
                         <<RedirectGet>>, <<Log("error", 92)>>)
              ELSE Raise(u, NameError, <<RedirectGet>>, <<>>)               \* line 92
         ELSE ExtractFrom(redirect.url, <<RedirectGet>>)
    ELSE ExtractFrom(u, <<>>)

\* where a short link may lead
RedirectTargets ==
    { Scheme \o WwwHost \o <<"/">> \o <<"@", "s", "o", "m", "e", "u", "s", "e", "r">>
          \o Slash(VideoWord) \o IdDigits(MaxIdLen),
      Scheme \o WwwHost \o <<"/">> \o <<"@", "s", "o", "m", "e", "u", "s", "e", "r">>
          \o Slash(PhotoWord) \o IdDigits(MaxIdLen),
      Scheme \o WwwHost \o <<"/">> }

Redirects(u) ==
    IF IsShortLink(u)
    THEN {[kind |-> "exception"]} \cup {[kind |-> "url", url |-> t] : t \in RedirectTargets}
    ELSE {[kind |-> "none"]}

-----------------------------------------------------------------------------
(* The download methods                                                    *)

\* line 59
Methods == <<"download_v2", "download_v3", "download_v1">>

MethodSet == {Methods[k] : k \in 1..Len(Methods)}

\* the backend of each method
Site(m) ==
    CASE m = "download_v1" -> "tmate.cc"
      [] m = "download_v2" -> "musicaldown.com"
      [] m = "download_v3" -> "tiktokio.com"

\* the form fields each method scrapes from the landing page
\* (lines 168, 282-284, 401)
Required(m) ==
    CASE m = "download_v1" -> {"token"}
      [] m = "download_v2" -> {"token_a", "token_b", "token_b_value"}
      [] m = "download_v3" -> {"prefix"}

\* how many selectors each method has for the download link
\* (lines 201, 312-316, 430 and 435)
NumSelectors(m) ==
    CASE m = "download_v1" -> 1
      [] m = "download_v2" -> 3
      [] m = "download_v3" -> 2

\* the lines of the logger calls of each method
Lines(m) ==
    CASE m = "download_v1" ->
           [photo |-> 155, landing |-> 164, token |-> 171, post |-> 182, nolink |-> 203,
            media |-> 215, ctype |-> 222, http |-> 242, other |-> 244]
      [] m = "download_v2" ->
           [photo |-> 267, landing |-> 276, token |-> 287, post |-> 304, nolink |-> 325,
            media |-> 334, ctype |-> 341, http |-> 359, other |-> 361]
      [] m = "download_v3" ->
           [photo |-> 387, landing |-> 396, token |-> 404, post |-> 420, nolink |-> 437,
            media |-> 449, ctype |-> 456, http |-> 474, other |-> 476]

Request(verb, to, m) == [request |-> verb, to |-> to, by |-> m]

Fail(e, logs) == [kind |-> "raise", exc |-> e, logs |-> logs]
Go(logs) == [kind |-> "continue", logs |-> logs]

\* the except clause of a method (lines 240-246, 357-363, 472-478): the
\* exception that leaves the method when e was raised inside its try block
MethodExcept(m, e) ==
    IF ~loggerBound THEN [exc |-> NameError, logs |-> <<>>]         \* lines 242, 244
    ELSE IF e.kind = "HTTPException"
    THEN [exc |-> e, logs |-> <<Log("error", Lines(m).http)>>]
    ELSE [exc |-> HTTPException(500, "Error downloading video", m, 0),
          logs |-> <<Log("error", Lines(m).other)>>]

\* what a stage of a method met: the stage, the status the backend answered
\* with (0 if none), what was in the answer, and, for the media, the
\* Content-Type header and the body
Answer(stage, status, what, content_type, content) ==
    [stage |-> stage, status |-> status, what |-> what,
     content_type |-> content_type, content |-> content]

\* what lines 152-160 (264-272, 384-392) met when extract_video_id gave r
PrologueAnswer(r) ==
    IF r.kind = "raise" THEN Answer("extract", 0, "no id", "", <<>>)
    ELSE IF r.content_type # "video" THEN Answer("extract", 0, "photo", "", <<>>)
    ELSE Answer("session", 0, "exception", "", <<>>)

\* lines 154-160 (266-272, 386-392), after extract_video_id gave r: the
\* content type check, the session and the first logger.debug
Prologue(m, r) ==
    IF r.kind = "raise" THEN Fail(r.exc, <<>>) @@ [opens |-> FALSE]
    ELSE IF r.content_type # "video"
    THEN IF loggerBound
         THEN Fail(HTTPException(400, "Only video downloads are supported", "", 0),
                   <<Log("warning", Lines(m).photo)>>) @@ [opens |-> FALSE]
         ELSE Fail(NameError, <<>>) @@ [opens |-> FALSE]
    ELSE IF loggerBound
         THEN Go(<<>>) @@ [opens |-> TRUE]
         ELSE Fail(NameError, <<>>) @@ [opens |-> TRUE]

\* the status a backend answers with when it does not answer 200
FailStatuses == {503}

Bodies == { <<"b1">>, <<"b1", "b2">> }

\* what a selector's getall() may give
Matches == { <<>>, <<"link1">>, <<"link2", "link1">> }

ContentTypes == {"video/mp4", "application/octet-stream", "text/html"}

Exception == [kind |-> "exception"]

LandingResponses(m) ==
    {Exception}
    \cup {[kind |-> "response", status_code |-> s, found |-> {}] : s \in FailStatuses}
    \cup {[kind |-> "response", status_code |-> 200, found |-> F] : F \in SUBSET Required(m)}

\* Landing going on to the form whatever tokens the page held
LandingNoTokenCheck(m, resp) ==
    IF resp.kind = "exception" THEN Fail(RequestException, <<>>)
    ELSE IF resp.status_code # 200
    THEN Fail(HTTPException(resp.status_code, "initial request failed with status",
                            Site(m), resp.status_code),
              <<Log("error", Lines(m).landing)>>)
    ELSE Go(<<>>)

\* lines 161-174 (273-291, 393-408) on the landing page's response
Landing(m, resp) ==
    IF resp.kind = "exception" THEN Fail(RequestException, <<>>)
    ELSE IF resp.status_code # 200
    THEN Fail(HTTPException(resp.status_code, "initial request failed with status",
                            Site(m), resp.status_code),
              <<Log("error", Lines(m).landing)>>)
    ELSE IF resp.found # Required(m)
    THEN Fail(HTTPException(500, "Could not retrieve token", Site(m), 0),
              <<Log("error", Lines(m).token)>>)
    ELSE Go(<<>>)

\* the landing page's response as lines 163 and 170 (275-286, 395-403) tell
\* its cases apart
LandingAnswer(m, resp) ==
    IF resp.kind = "exception" THEN Answer("landing", 0, "exception", "", <<>>)
    ELSE IF resp.status_code # 200
    THEN Answer("landing", resp.status_code, "status", "", <<>>)
    ELSE IF resp.found # Required(m) THEN Answer("landing", 200, "token absent", "", <<>>)
    ELSE Answer("landing", 200, "ok", "", <<>>)

PostResponses(m) ==
    {Exception}
    \cup {[kind |-> "response", status_code |-> s] : s \in FailStatuses}
    \cup {[kind |-> "response", status_code |-> 200, json |-> j, data |-> d,
           matches |-> c, content |-> b] :
             j \in (IF m = "download_v1" THEN BOOLEAN ELSE {TRUE}),
             d \in (IF m = "download_v1" THEN BOOLEAN ELSE {TRUE}),
             c \in [1..NumSelectors(m) -> Matches],
             b \in Bodies}

\* SelectLink taking the link of the last selector that matched
SelectLinkLast(m, matches) ==
    LET hits == {k \in 1..NumSelectors(m) : matches[k] # <<>>}
        last == CHOOSE k \in hits : \A j \in hits : j <= k
    IN  IF hits = {} THEN None
        ELSE [kind |-> "link", href |-> matches[last][1], selector |-> last]

\* the download link the method takes from the form's response
\* (lines 201-207, 311-322, 430-441); None if it finds none
SelectLink(m, matches) ==
    LET hits == {k \in 1..NumSelectors(m) : matches[k] # <<>>}
    IN  IF hits = {} THEN None
        ELSE [kind |-> "link", href |-> matches[Least(hits)][1], selector |-> Least(hits)]

\* the form's response as lines 181-202 (303-324, 419-436) tell its cases
\* apart
PostAnswer(m, resp) ==
    IF resp.kind = "exception" THEN Answer("post", 0, "exception", "", <<>>)
    ELSE IF resp.status_code # 200
    THEN Answer("post", resp.status_code, "status", "", <<>>)
    ELSE IF ~resp.json THEN Answer("post", 200, "unparseable", "", <<>>)
    ELSE IF ~resp.data THEN Answer("post", 200, "no data", "", <<>>)
    ELSE IF \A k \in 1..NumSelectors(m) : resp.matches[k] = <<>>
    THEN Answer("post", 200, "link absent", "", <<>>)
    ELSE Answer("post", 200, "ok", "", <<>>)

\* lines 179-208 (301-330, 417-445) on the form's response
Post(m, resp) ==
    IF resp.kind = "exception" THEN Fail(RequestException, <<>>)
    ELSE IF resp.status_code # 200
    THEN Fail(HTTPException(resp.status_code, "form request failed with status",
                            Site(m), resp.status_code),
              <<Log("error", Lines(m).post)>>)
    ELSE IF ~resp.json
    THEN Fail(HTTPException(500, "Invalid JSON response", Site(m), 0), <<Log("error", 188)>>)
    ELSE IF ~resp.data
    THEN Fail(HTTPException(500, "Invalid response (no data field)", Site(m), 0),
              <<Log("error", 194)>>)
    ELSE IF SelectLink(m, resp.matches) = None
    THEN Fail(HTTPException(500, "Could not find download link", "", 0),
              IF m = "download_v3"
              THEN <<Log("error", 433), Log("error", 437)>>
              ELSE <<Log("error", Lines(m).nolink)>>)
    ELSE Go(IF m = "download_v3" /\ SelectLink(m, resp.matches).selector = 2
            THEN <<Log("error", 433)>> ELSE <<>>)

MediaResponses ==
    {Exception}
    \cup {[kind |-> "response", status_code |-> s] : s \in FailStatuses}
    \cup {[kind |-> "response", status_code |-> 200, content_type |-> t, content |-> b] :
             t \in ContentTypes, b \in Bodies}

\* lines 220-222 (339-341, 454-456)
Unexpected(content_type) ==
    content_type \notin {"video/mp4", "application/octet-stream"}

\* the media response as lines 214 and 219 (333-338, 448-453) read it
MediaAnswer(resp) ==
    IF resp.kind = "exception" THEN Answer("media", 0, "exception", "", <<>>)
    ELSE IF resp.status_code # 200
    THEN Answer("media", resp.status_code, "status", "", <<>>)
    ELSE Answer("media", 200, "ok", resp.content_type, resp.content)

\* Media refusing a Content-Type that is neither video nor octet-stream
MediaStrict(m, resp) ==
    IF resp.kind = "exception" THEN Fail(RequestException, <<>>)
    ELSE IF resp.status_code # 200
    THEN Fail(HTTPException(resp.status_code, "Failed to download video",
                            Site(m), resp.status_code),
              <<Log("error", Lines(m).media)>>)
    ELSE IF Unexpected(resp.content_type)
    THEN Fail(HTTPException(500, "Unexpected content type", Site(m), 0),
              <<Log("warning", Lines(m).ctype)>>)
    ELSE Go(<<>>)

\* lines 212-226 (331-345, 446-460) on the media response
Media(m, resp) ==
    IF resp.kind = "exception" THEN Fail(RequestException, <<>>)
    ELSE IF resp.status_code # 200
    THEN Fail(HTTPException(resp.status_code, "Failed to download video",
                            Site(m), resp.status_code),
              <<Log("error", Lines(m).media)>>)
    ELSE Go(IF Unexpected(resp.content_type)
            THEN <<Log("warning", Lines(m).ctype)>> ELSE <<>>)

\* Filename without the extension
FilenameNoExt(video_id) == <<"t", "i", "k", "t", "o", "k", "_">> \o video_id

Filename(video_id) ==
    <<"t", "i", "k", "t", "o", "k", "_">> \o video_id \o <<".", "m", "p", "4">>

\* lines 230-238 (349-355, 464-470); f holds the method's locals, resp is
\* the media response
StreamingResponse(m, f, resp) ==
    [kind |-> "StreamingResponse",
     body |-> resp.content,
     media_type |-> "video/mp4",
     filename |-> Filename(f.video_id),
     content_length |-> IF m = "download_v1" THEN {Len(f.post_content)} ELSE {}]

-----------------------------------------------------------------------------
(* download_video                                                          *)

\* the module's headers (lines 41-49), by the entries that tell it apart
BrowserHeaders ==
    [UserAgent |-> "Chrome/120.0.0.0", Origin |-> "", Connection |-> "keep-alive"]

\* the headers each method builds (lines 142-149, 252-261, 369-381)
MethodHeaders(m) ==
    [UserAgent |-> CASE m = "download_v1" -> "Firefox/107.4"
                     [] m = "download_v2" -> "Firefox/126.0"
                     [] m = "download_v3" -> "Firefox/131.0",
     Origin |-> Site(m),
     Connection |-> "keep-alive"]

\* ModuleHeaders had the methods declared `global headers`
HeadersGlobal(m, h) == MethodHeaders(m)

\* the module's headers h after method m ran `headers = {...}` (lines 142,
\* 252, 369): the name is local to the method, the module's dict stays
ModuleHeaders(m, h) == h

NoFrame ==
    [method |-> "", headers |-> None, video_id |-> <<>>, landing |-> None,
     matches |-> <<>>, download_link |-> "", post_content |-> <<>>]

\* the record of a call of method m that ended on answer with exception e
\* (None if it returned)
Attempt(m, answer, e) == [method |-> m, exc |-> e] @@ answer

\* Line65 without its return: the loop goes on to the next method
Line65NoReturn(response, k) == [pc |-> "for", i |-> k + 1, outcome |-> None]

\* line 65, `return await method(url)`, when the method returned response:
\* download_video returns it
Line65(response, k) == [pc |-> "done", i |-> k, outcome |-> [line |-> 65, value |-> response]]

\* Caught staying on the method that failed: the loop tries it again
CaughtRetry(e, k) ==
    IF loggerBound
    THEN [pc |-> "for", i |-> k, last_error |-> e, outcome |-> None,
          logs |-> <<[level |-> "warning", line |-> 67, method |-> Methods[k], error |-> e]>>]
    ELSE [pc |-> "done", i |-> k, last_error |-> last_error,
          outcome |-> [line |-> 67, value |-> NameError], logs |-> <<>>]

\* Caught never leaving the except clause
CaughtHangs(e, k) ==
    [pc |-> "except", i |-> k, last_error |-> last_error, outcome |-> None, logs |-> <<>>]

\* Caught keeping the first error it saw as last_error
CaughtKeepFirst(e, k) ==
    IF loggerBound
    THEN [pc |-> "for", i |-> k + 1,
          last_error |-> IF last_error = None THEN e ELSE last_error, outcome |-> None,
          logs |-> <<[level |-> "warning", line |-> 67, method |-> Methods[k], error |-> e]>>]
    ELSE [pc |-> "done", i |-> k, last_error |-> last_error,
          outcome |-> [line |-> 67, value |-> NameError], logs |-> <<>>]

\* Caught without line 67: the failure leaves no record
CaughtUnrecorded(e, k) ==
    [pc |-> "for", i |-> k + 1, last_error |-> e, outcome |-> None, logs |-> <<>>]

\* lines 66-68, the except clause of the loop, on the exception e of the
\* method at position k
Caught(e, k) ==
    IF loggerBound
    THEN [pc |-> "for", i |-> k + 1, last_error |-> e, outcome |-> None,
          logs |-> <<[level |-> "warning", line |-> 67, method |-> Methods[k], error |-> e]>>]
    ELSE [pc |-> "done", i |-> k, last_error |-> last_error,            \* line 67
          outcome |-> [line |-> 67, value |-> NameError], logs |-> <<>>]

\* AllFailed raising the error of line 78 whatever the last error was
AllFailedGeneric(last) ==
    [outcome |-> [line |-> 78,
                  value |-> HTTPException(500, "All download methods failed", "", 0)],
     logs |-> <<Log("error", 71), Log("error", 76)>>]

\* lines 71-78, after the loop
AllFailed(last) ==
    IF ~loggerBound
    THEN [outcome |-> [line |-> 71, value |-> NameError], logs |-> <<>>]
    ELSE IF last.kind = "HTTPException"
    THEN [outcome |-> [line |-> 73, value |-> last], logs |-> <<Log("error", 71)>>]
    ELSE [outcome |-> [line |-> 78,
                       value |-> HTTPException(500, "All download methods failed", "", 0)],
          logs |-> <<Log("error", 71), Log("error", 76)>>]

Init ==
    /\ loggerBound \in BOOLEAN
    /\ pc = "idle"
    /\ url = <<>>
    /\ i = 1
    /\ last_error = None
    /\ raised = None
    /\ frame = NoFrame
    /\ session = [opened |-> 0, closed |-> 0]
    /\ calls = [m \in MethodSet |-> 0]
    /\ extracted = <<>>
    /\ net = <<>>
    /\ logged = <<>>
    /\ returned = [m \in MethodSet |-> None]
    /\ outcome = None
    /\ attempts = <<>>
    /\ headers = BrowserHeaders
    /\ loop = 0
    /\ arrived = {}
    /\ served = {}

\* lines 52-60: a request arrives
download_video(u) ==
    /\ pc = "idle"
    /\ url' = u
    /\ i' = 1
    /\ last_error' = None
    /\ pc' = "for"
    /\ UNCHANGED <<loggerBound, raised, frame, session, calls, extracted, net,
                   logged, returned, outcome, attempts, headers, loopVars>>

\* lines 62-65: the loop calls the next method
CallMethod ==
    /\ pc = "for"
    /\ i <= Len(Methods)
    /\ calls' = [calls EXCEPT ![Methods[i]] = @ + 1]
    /\ frame' = [NoFrame EXCEPT !.method = Methods[i],
                                !.headers = MethodHeaders(Methods[i])]
    /\ headers' = ModuleHeaders(Methods[i], headers)
    /\ pc' = "try"
    /\ UNCHANGED <<loggerBound, url, i, last_error, raised, session, extracted, net,
                   logged, returned, outcome, attempts, loopVars>>

\* Leave without the exit of the with block: the session stays open
LeaveOpen(e, logs, closes) ==
    LET x == MethodExcept(frame.method, e)
    IN  /\ raised' = x.exc
        /\ logged' = logged \o logs \o x.logs
        /\ session' = session
        /\ frame' = NoFrame
        /\ pc' = "except"
        /\ UNCHANGED <<loggerBound, url, i, last_error, calls, returned, outcome>>

\* the running method leaves with exception e, raised inside its try block
\* after it logged logs; closes tells whether a session was open
Leave(e, logs, closes) ==
    LET x == MethodExcept(frame.method, e)
    IN  /\ raised' = x.exc
        /\ logged' = logged \o logs \o x.logs
        /\ session' = IF closes THEN [session EXCEPT !.closed = @ + 1] ELSE session
        /\ frame' = NoFrame
        /\ pc' = "except"
        /\ UNCHANGED <<loggerBound, url, i, last_error, calls, returned, outcome>>

\* lines 151-160 of download_v1 (263-272, 383-392): extract_video_id, the
\* content type check, and the session
EnterMethod ==
    /\ pc = "try"
    /\ \E redirect \in Redirects(url) :
         LET r == extract_video_id(url, redirect)
             p == Prologue(frame.method, r)
             opened == IF p.opens THEN [session EXCEPT !.opened = @ + 1] ELSE session
         IN  /\ extracted' = Append(extracted, [x \in DOMAIN r \ {"gets", "logs"} |-> r[x]])
             /\ net' = net \o r.gets
             /\ IF p.kind = "raise"
                THEN /\ raised' = MethodExcept(frame.method, p.exc).exc
                     /\ logged' = logged \o r.logs \o p.logs
                                         \o MethodExcept(frame.method, p.exc).logs
                     /\ session' = IF p.opens THEN [opened EXCEPT !.closed = @ + 1]
                                   ELSE session
                     /\ frame' = NoFrame
                     /\ attempts' = Append(attempts,
                                           Attempt(frame.method, PrologueAnswer(r),
                                                   MethodExcept(frame.method, p.exc).exc))
                     /\ pc' = "except"
                ELSE /\ logged' = logged \o r.logs \o p.logs
                     /\ session' = opened
                     /\ frame' = [frame EXCEPT !.video_id = r.video_id]
                     /\ pc' = "landing"
                     /\ UNCHANGED <<raised, attempts>>
    /\ UNCHANGED <<loggerBound, url, i, last_error, calls, returned, outcome, headers,
                   loopVars>>

\* lines 161-174 (273-291, 393-408): the landing page and its tokens
LandingGet ==
    /\ pc = "landing"
    /\ net' = Append(net, Request("GET", "landing", frame.method))
    /\ \E resp \in LandingResponses(frame.method) :
         LET r == Landing(frame.method, resp)
         IN  IF r.kind = "raise"
             THEN /\ Leave(r.exc, r.logs, TRUE)
                  /\ attempts' = Append(attempts,
                                        Attempt(frame.method, LandingAnswer(frame.method, resp),
                                                MethodExcept(frame.method, r.exc).exc))
             ELSE /\ pc' = "post"
                  /\ logged' = logged \o r.logs
                  /\ frame' = [frame EXCEPT !.landing = resp]
                  /\ UNCHANGED <<loggerBound, url, i, last_error, raised, session,
                                 calls, returned, outcome, attempts>>
    /\ UNCHANGED <<extracted, headers, loopVars>>

\* lines 177-208 (293-330, 410-445): the form and the download link
FormPost ==
    /\ pc = "post"
    /\ net' = Append(net, Request("POST", "form", frame.method))
    /\ \E resp \in PostResponses(frame.method) :
         LET r == Post(frame.method, resp)
         IN  IF r.kind = "raise"
             THEN /\ Leave(r.exc, r.logs, TRUE)
                  /\ attempts' = Append(attempts,
                                        Attempt(frame.method, PostAnswer(frame.method, resp),
                                                MethodExcept(frame.method, r.exc).exc))
             ELSE /\ pc' = "media"
                  /\ logged' = logged \o r.logs
                  /\ frame' = [frame EXCEPT
                                 !.matches = resp.matches,
                                 !.download_link = SelectLink(frame.method, resp.matches).href,
                                 !.post_content = resp.content]
                  /\ UNCHANGED <<loggerBound, url, i, last_error, raised, session,
                                 calls, returned, outcome, attempts>>
    /\ UNCHANGED <<extracted, headers, loopVars>>

\* lines 212-238 (331-355, 446-470): the media and the method's response,
\* which line 65 returns
MediaGet ==
    /\ pc = "media"
    /\ net' = Append(net, Request("GET", frame.download_link, frame.method))
    /\ \E resp \in MediaResponses :
         LET r == Media(frame.method, resp)
             response == StreamingResponse(frame.method, frame, resp)
             after == Line65(response, i)
         IN  IF r.kind = "raise"
             THEN /\ Leave(r.exc, r.logs, TRUE)
                  /\ attempts' = Append(attempts,
                                        Attempt(frame.method, MediaAnswer(resp),
                                                MethodExcept(frame.method, r.exc).exc))
             ELSE /\ returned' = [returned EXCEPT ![frame.method] = response]
                  /\ attempts' = Append(attempts,
                                        Attempt(frame.method, MediaAnswer(resp), None))
                  /\ logged' = logged \o r.logs
                  /\ session' = [session EXCEPT !.closed = @ + 1]
                  /\ frame' = NoFrame
                  /\ pc' = after.pc
                  /\ i' = after.i
                  /\ outcome' = after.outcome
                  /\ UNCHANGED <<loggerBound, url, last_error, raised, calls>>
    /\ UNCHANGED <<extracted, headers, loopVars>>

\* lines 66-68: the loop's except clause
ExceptClause ==
    /\ pc = "except"
    /\ LET c == Caught(raised, i)
       IN  /\ pc' = c.pc
           /\ i' = c.i
           /\ last_error' = c.last_error
           /\ outcome' = c.outcome
           /\ logged' = logged \o c.logs
    /\ raised' = None
    /\ UNCHANGED <<loggerBound, url, frame, session, calls, extracted, net, returned,
                   attempts, headers, loopVars>>

\* lines 70-78: every method was tried
AllMethodsFailed ==
    /\ pc = "for"
    /\ i > Len(Methods)
    /\ LET a == AllFailed(last_error)
       IN  /\ outcome' = a.outcome
           /\ logged' = logged \o a.logs
    /\ pc' = "done"
    /\ UNCHANGED <<loggerBound, url, i, last_error, raised, frame, session, calls,
                   extracted, net, returned, attempts, headers, loopVars>>

Next ==
    \/ \E u \in Urls : download_video(u)
    \/ CallMethod
    \/ EnterMethod
    \/ LandingGet
    \/ FormPost
    \/ MediaGet
    \/ ExceptClause
    \/ AllMethodsFailed

Spec == Init /\ [][Next]_vars

-----------------------------------------------------------------------------
(* Several requests on the server's event loop                             *)

MaxRequests == 2

Requests == 1..MaxRequests

\* the urls of the requests that share the loop: a short link and a video
LoopUrls ==
    { Scheme \o VmHost \o ShortCode,
      StandardUrl(VideoWord, <<"@", "s", "o", "m", "e", "u", "s", "e", "r">>, MaxIdLen, <<>>) }

\* the handler on the loop is inside a call of requests (lines 88, 161, 179,
\* 212 and their like in download_v2 and download_v3), waiting for the answer
InNetworkCall ==
    /\ loop # 0
    /\ \/ pc \in {"landing", "post", "media"}
       \/ pc = "try" /\ IsShortLink(url)

\* the loop can start the handler of r: download_video is a coroutine
\* (line 52) and the loop runs one coroutine at a time, up to its next await
\* that suspends; download_video and the methods it awaits (lines 65, 138,
\* 248, 365) hold no such await, their network calls are calls of requests
CanStart(r) == loop = 0 /\ r \in arrived

\* a request reaches the server
Arrive(r) ==
    /\ r \notin arrived \cup served
    /\ r # loop
    /\ arrived' = arrived \cup {r}
    /\ UNCHANGED <<loggerBound, pc, url, i, last_error, raised, frame, session, calls,
                   extracted, net, logged, returned, outcome, attempts, headers, loop,
                   served>>

\* the loop starts the handler of r (lines 51-52)
Dispatch(r, u) ==
    /\ CanStart(r)
    /\ pc = "idle"
    /\ loop' = r
    /\ arrived' = arrived \ {r}
    /\ url' = u
    /\ i' = 1
    /\ last_error' = None
    /\ pc' = "for"
    /\ UNCHANGED <<loggerBound, raised, frame, session, calls, extracted, net,
                   logged, returned, outcome, attempts, headers, served>>

\* the handler of r has returned or raised: its locals are gone, the loop is
\* free
Finish(r) ==
    /\ loop = r
    /\ pc = "done"
    /\ served' = served \cup {r}
    /\ loop' = 0
    /\ pc' = "idle"
    /\ url' = <<>>
    /\ i' = 1
    /\ last_error' = None
    /\ raised' = None
    /\ frame' = NoFrame
    /\ session' = [opened |-> 0, closed |-> 0]
    /\ calls' = [m \in MethodSet |-> 0]
    /\ extracted' = <<>>
    /\ net' = <<>>
    /\ logged' = <<>>
    /\ returned' = [m \in MethodSet |-> None]
    /\ outcome' = None
    /\ attempts' = <<>>
    /\ UNCHANGED <<loggerBound, headers, arrived>>

NextLoop ==
    \/ \E r \in Requests : Arrive(r)
    \/ \E r \in Requests, u \in LoopUrls : Dispatch(r, u)
    \/ CallMethod
    \/ EnterMethod
    \/ LandingGet
    \/ FormPost
    \/ MediaGet
    \/ ExceptClause
    \/ AllMethodsFailed
    \/ \E r \in Requests : Finish(r)

SpecLoop == Init /\ [][NextLoop]_vars

-----------------------------------------------------------------------------
(* One request, whose handler keeps running                                *)

\* a step of the handler of the request: a statement of download_video or of
\* the method it awaits, a network call's answer included
Handler ==
    \/ CallMethod
    \/ EnterMethod
    \/ LandingGet
    \/ FormPost
    \/ MediaGet
    \/ ExceptClause
    \/ AllMethodsFailed

\* the url of the request: a short link, which may lead to a video, to a
\* photo, to a page with no id or to no answer
LiveUrls == { Scheme \o VmHost \o ShortCode }

NextLive ==
    \/ \E u \in LiveUrls : download_video(u)
    \/ CallMethod
    \/ EnterMethod
    \/ LandingGet
    \/ FormPost
    \/ MediaGet
    \/ ExceptClause
    \/ AllMethodsFailed

\* a handler that has started goes on to its next statement, and every
\* network call it makes returns or raises
SpecLive == Init /\ [][NextLive]_vars /\ WF_vars(Handler)

-----------------------------------------------------------------------------
(* Properties                                                              *)

Done == pc = "done"

\* method m was called and left with an exception
Failed(m) == calls[m] > 0 /\ returned[m] = None /\ frame.method # m

\* the records of the failed attempts, written by line 67
FailureRecords == SelectSeq(logged, LAMBDA r : r.line = 67)

AllThreeFailed == Done /\ \A m \in MethodSet : Failed(m)

ThreeRecordsInOrder ==
    /\ Len(FailureRecords) = Len(Methods)
    /\ \A k \in 1..Len(Methods) : FailureRecords[k].method = Methods[k]

\* the one error download_video builds itself (line 78)
GenericError == HTTPException(500, "All download methods failed", "", 0)

C4_NeverAborts == Done => outcome.line \in {65, 73, 78}

\* the exception of lines 156, 268, 388
UnsupportedContentType == HTTPException(400, "Only video downloads are supported", "", 0)

\* the running method has just left, and its extract_video_id had returned
\* content type photo
PhotoLeft ==
    /\ pc = "except"
    /\ extracted[Len(extracted)].kind = "return"
    /\ extracted[Len(extracted)].content_type = "photo"

\* C5: for a URL whose content type is photo, a method rejects with the
\* unsupported-content-type error (400) and has issued no request before.
C5_PhotoRejected ==
    PhotoLeft => (raised = UnsupportedContentType /\ (i = 1 => net = <<>>))

\* C6: for every URL .../@handle/video/<15 or more digits>, given directly or
\* reached as the final location of a short link, extract_video_id returns
\* exactly that handle, exactly that digit string and content type video.
C6_StandardExtraction ==
    \A k \in DOMAIN extracted :
        \A h \in Handles, n \in MinIdLen..MaxIdLen, q \in {<<>>, Query} :
            extracted[k].url = StandardUrl(VideoWord, h, n, q) =>
                extracted[k] = [kind |-> "return", url |-> StandardUrl(VideoWord, h, n, q),
                                username |-> h, video_id |-> IdDigits(n),
                                content_type |-> "video"]

C6_Witness ==
    /\ url = Scheme \o VmHost \o ShortCode
    /\ extracted # <<>>
    /\ extracted[1].kind = "return"
    /\ extracted[1].url = StandardUrl(VideoWord, <<"@", "s", "o", "m", "e", "u", "s", "e", "r">>,
                                      MaxIdLen, <<>>)
    /\ extracted[1].username = <<"@", "s", "o", "m", "e", "u", "s", "e", "r">>
    /\ extracted[1].video_id = IdDigits(MaxIdLen)
    /\ extracted[1].content_type = "video"

\* the maximal digit runs of u that have 15 or more digits
LongRuns(u) ==
    {SubSeq(u, p, RunEnd(u, p, Digit)) :
        p \in {p \in 1..Len(u) : /\ u[p] \in Digit
                                 /\ p = 1 \/ u[p - 1] \notin Digit
                                 /\ RunEnd(u, p, Digit) - p + 1 >= MinIdLen}}

PrimaryMatches(u) == SearchUsername(u).found /\ SearchContentType(u).found

\* C7: for every URL that holds a run of 15 or more digits and does not match
\* the primary pattern pair, extract_video_id does not fail: it returns that
\* run as content id with content type video, and the placeholder handle when
\* the URL holds no handle.
C7_FallbackNeverFails ==
    \A k \in DOMAIN extracted :
        (LongRuns(extracted[k].url) # {} /\ ~PrimaryMatches(extracted[k].url)) =>
            /\ extracted[k].kind = "return"
            /\ extracted[k].video_id \in LongRuns(extracted[k].url)
            /\ extracted[k].content_type = "video"
            /\ ~SearchUsername(extracted[k].url).found =>
                   extracted[k].username = Placeholder

\* C8: whenever the /(video|photo)/<digits> pattern matches the URL and the
\* @handle pattern does not, extract_video_id raises the malformed-URL error
\* (400) and returns no reference.
C8_HandleMandatory ==
    \A k \in DOMAIN extracted :
        (SearchContentType(extracted[k].url).found
            /\ ~SearchUsername(extracted[k].url).found) =>
            /\ extracted[k].kind = "raise"
            /\ extracted[k].exc.kind = "HTTPException"
            /\ extracted[k].exc.status_code = 400

\* neither the primary pattern pair nor the 15-digit fallback gives an id
NoId(u) == ~PrimaryMatches(u) /\ ~SearchAlt(u).found

\* C9: for a URL from which no content id can be extracted, the request ends
\* with a 400 error to the caller, and no method has sent a request to its
\* backend.
C9_NoIdIs400 ==
    (Done /\ extracted # <<>> /\ \A k \in DOMAIN extracted : NoId(extracted[k].url)) =>
        /\ outcome.value.kind = "HTTPException"
        /\ outcome.value.status_code = 400
        /\ \A k \in DOMAIN net : net[k] = RedirectGet

RedirectGets == Len(SelectSeq(net, LAMBDA r : r = RedirectGet))

Status500(e) == e.kind = "HTTPException" /\ e.status_code = 500

\* C13: a method that stops on a non-success status S of its backend fails
\* with status S; one that stops on an absent token or link, an unparseable
\* body or an unexpected exception fails with status 500
C13_StatusCarried ==
    \A k \in 1..Len(attempts) :
        LET a == attempts[k]
        IN  /\ a.what = "status" =>
                  (a.exc.kind = "HTTPException" /\ a.exc.status_code = a.status)
            /\ a.what \in {"token absent", "link absent", "unparseable", "exception"} =>
                  Status500(a.exc)

\* the requests method m has issued, in order
Issued(m) == SelectSeq(net, LAMBDA q : q.by = m)

StageOrder == <<"landing", "post", "media">>

\* how many requests a method has issued when it is at or ended at a stage
IssuedAt(stage) ==
    CASE stage \in {"extract", "session", "try"} -> 0
      [] stage = "landing" -> 1
      [] stage = "post" -> 2
      [] stage = "media" -> 3

LinkNotFound(e) ==
    e.kind = "HTTPException" /\ e.detail.text = "Could not find download link"

Open == session.opened - session.closed

C18_OthersProgress ==
    \A r \in Requests : (InNetworkCall /\ r \in arrived) => CanStart(r)

\* what a request on its own starts from
NoRequest ==
    [pc |-> "idle", url |-> <<>>, i |-> 1, last_error |-> None, raised |-> None,
     frame |-> NoFrame, session |-> [opened |-> 0, closed |-> 0],
     calls |-> [m \in MethodSet |-> 0], extracted |-> <<>>, net |-> <<>>,
     logged |-> <<>>, returned |-> [m \in MethodSet |-> None], outcome |-> None,
     attempts |-> <<>>, headers |-> BrowserHeaders]

Current ==
    [pc |-> pc, url |-> url, i |-> i, last_error |-> last_error, raised |-> raised,
     frame |-> frame, session |-> session, calls |-> calls, extracted |-> extracted,
     net |-> net, logged |-> logged, returned |-> returned, outcome |-> outcome,
     attempts |-> attempts, headers |-> headers]

Attempted == calls["download_v1"] + calls["download_v2"] + calls["download_v3"]

\* what the caller got is one response or one exception
TerminalOutcome ==
    \/ outcome.line = 65 /\ outcome.value.kind = "StreamingResponse"
    \/ outcome.line \in {67, 71, 73, 78}
           /\ outcome.value.kind \in {"HTTPException", "NameError"}

=============================================================================
